---- MODULE Spec2Model ----
(***************************************************************************)
(* Model of AvailabilityManager.py: the import of scraped FA1 room         *)
(* bookings into a Google calendar (add_fa1_bookings_to_calendar) and the  *)
(* management of the 'Free4Booking' placeholder events                    *)
(* (manage_free4booking_events).                                          *)
(*                                                                         *)
(* Text is modelled as a sequence of one-character strings, so that        *)
(* str.lower() and the 'in' substring test are computed, not assumed.      *)
(* A point in time is the number of seconds since 00:00 (Europe/Brussels)  *)
(* of start_date; days have 24 hours (no daylight-saving change inside     *)
(* the horizon).                                                           *)
(***************************************************************************)
EXTENDS Integers, Sequences, FiniteSets, TLC

VARIABLES
    calendar,       \* the remote calendar: the set of its events
    next_id,        \* the id the calendar service gives to the next inserted event
    today,          \* start_date.weekday(): 0 = Monday .. 6 = Sunday
    schedule,       \* which of Schedules the configuration holds as WORK_SCHEDULE
    pc,             \* position of the run: "import", "day", "slot", "done", "crashed"
    current_date,   \* the day of the while loop, in days after start_date
    slot,           \* index into slots_to_check of the slot evaluated next
    run,            \* number of the invocation of the program
    failures,       \* gateway calls that have failed so far
    calls,          \* history: the gateway calls of the last step
    imported,       \* history: ids of the events the import pass has created
    passes,         \* history: the last two import passes
    snapshots       \* history: per day, the placeholders left by its completed passes

vars == <<calendar, next_id, today, schedule, pc, current_date, slot, run,
          failures, calls, imported, passes, snapshots>>

----------------------------------------------------------------------------
(* Bounds of the model *)

\* the source sets DAYS_TO_CHECK = 20; the loop body is the same for every day
DAYS_TO_CHECK == 1
\* events the calendar holds before the first run
MaxExternal == 2
\* records in one scrape
MaxBatch == 2
\* invocations of a pass
MaxRuns == 2
\* failing gateway calls
MaxFailures == 1

----------------------------------------------------------------------------
(* Text *)

UpperCase == <<"A","B","C","D","E","F","G","H","I","J","K","L","M",
               "N","O","P","Q","R","S","T","U","V","W","X","Y","Z">>
LowerCase == <<"a","b","c","d","e","f","g","h","i","j","k","l","m",
               "n","o","p","q","r","s","t","u","v","w","x","y","z">>

\* str.lower() of one character
ToLower ==
    [c \in {UpperCase[i] : i \in 1..Len(UpperCase)} |->
        LowerCase[CHOOSE i \in 1..Len(UpperCase) : UpperCase[i] = c]]

LowerChar(c) == IF c \in DOMAIN ToLower THEN ToLower[c] ELSE c

\* str.lower()
RECURSIVE Lower(_)
Lower(s) == IF s = <<>> THEN <<>> ELSE <<LowerChar(Head(s))>> \o Lower(Tail(s))

\* needle in text
In(needle, text) ==
    \E i \in 1..(Len(text) - Len(needle) + 1) :
        SubSeq(text, i, i + Len(needle) - 1) = needle

FREE4BOOKING == <<"F","r","e","e","4","B","o","o","k","i","n","g">>
free4booking == <<"f","r","e","e","4","b","o","o","k","i","n","g">>
lokaal_fa1   == <<"l","o","k","a","a","l"," ","f","a","1">>
\* a slip: the summary of a scraped record does not name the room in full
lokaal_suffix_abridged == <<" ","(","F","A","1",")">>
lokaal_FA1_suffix == <<" ","(","l","o","k","a","a","l"," ","F","A","1",")">>

Ann == <<"A","n","n">>
Bob == <<"B","o","b">>
Cid == <<"C","i","d">>
Dan == <<"D","a","n">>
BOB == <<"B","O","B">>
Les    == <<" ","l","e","s">>
Verlof == <<" ","v","e","r","l","o","f">>

\* the summaries of the events of the model
Summaries ==
    {FREE4BOOKING, Ann \o <<" ">> \o free4booking, Dan \o lokaal_FA1_suffix,
     Ann \o lokaal_FA1_suffix, Ann \o Les, BOB \o Les, Cid \o Les, Ann \o Verlof}

\* the texts searched for in a summary
Needles == {free4booking, lokaal_fa1, Lower(Ann), Lower(Bob), Lower(Cid)}

\* (needle, summary, needle in summary.lower()), tabulated for the texts above
InLowerTable == {<<needle, summary, In(needle, Lower(summary))>> :
                    needle \in Needles, summary \in Summaries}

\* needle in summary.lower()
InLower(needle, summary) ==
    IF needle \in Needles /\ summary \in Summaries
    THEN <<needle, summary, TRUE>> \in InLowerTable
    ELSE In(needle, Lower(summary))

----------------------------------------------------------------------------
(* Time *)

Hour == 60 * 60
Day  == 24 * Hour

\* local time hour:00:00 on day d after start_date
At(d, hour) == d * Day + hour * Hour

\* datetime.weekday() of a point in time
WeekdayOf(t) == (today + (t \div Day)) % 7

\* datetime.hour of a point in time
HourOf(t) == (t % Day) \div Hour

Max(a, b) == IF a > b THEN a ELSE b
Min(a, b) == IF a < b THEN a ELSE b

----------------------------------------------------------------------------
(* Calendar events and the calendar service *)

None == [none |-> TRUE]

\* an event with start and end times; an all-day event has dates instead
TimedEvent(id, summary, from, to, status) ==
    [id |-> id, summary |-> summary, status |-> status,
     start |-> [dateTime |-> from], end |-> [dateTime |-> to]]

AllDayEvent(id, summary, d, status) ==
    [id |-> id, summary |-> summary, status |-> status,
     start |-> [date |-> d], end |-> [date |-> d + 1]]

parse_event_time(event_time_dict) ==
    IF "dateTime" \in DOMAIN event_time_dict THEN event_time_dict.dateTime
    ELSE IF "date" \in DOMAIN event_time_dict THEN event_time_dict.date * Day
    ELSE None

\* service.events().list(timeMin, timeMax): the events that end after timeMin
\* and start before timeMax
ListEvents(cal, timeMin, timeMax) ==
    {e \in cal : /\ parse_event_time(e.end) > timeMin
                 /\ parse_event_time(e.start) < timeMax}

\* a slip: the window runs on to the end of the next day
get_events_two_days(cal, d) ==
    ListEvents(cal, At(d, 0), At(d + 1, 23) + 59 * 60 + 59)

\* the events of day d: 00:00:00 up to 23:59:59
get_events_for_day(cal, d) ==
    ListEvents(cal, At(d, 0), At(d, 23) + 59 * 60 + 59)

----------------------------------------------------------------------------
(* The work schedule *)

WEEKDAY_MAP_NL ==
    (0 :> "MAANDAG") @@ (1 :> "DINSDAG") @@ (2 :> "WOENSDAG") @@
    (3 :> "DONDERDAG") @@ (4 :> "VRIJDAG")

StaffedDay ==
    [Voormiddag |-> [exp1 |-> <<Ann, Bob>>, exp2 |-> <<Cid>>],
     Namiddag   |-> [exp1 |-> <<Ann>>,      exp2 |-> <<Ann, Bob>>]]

\* every weekday staffed in both periods
FullSchedule ==
    [MAANDAG |-> StaffedDay, DINSDAG |-> StaffedDay, WOENSDAG |-> StaffedDay,
     DONDERDAG |-> StaffedDay, VRIJDAG |-> StaffedDay]

\* a schedule with gaps: on Monday the same two people are listed for both
\* roles, Tuesday has no afternoon entry, Wednesday morning lacks exp2,
\* Wednesday afternoon has an empty exp1, Thursday afternoon is null, and
\* Friday has no entry at all
GapSchedule ==
    [MAANDAG   |-> [Voormiddag |-> [exp1 |-> <<Bob, Cid>>, exp2 |-> <<Bob, Cid>>],
                    Namiddag   |-> StaffedDay.Namiddag],
     DINSDAG   |-> [Voormiddag |-> StaffedDay.Voormiddag],
     WOENSDAG  |-> [Voormiddag |-> [exp1 |-> <<Ann>>],
                    Namiddag   |-> [exp1 |-> <<>>, exp2 |-> <<Cid>>]],
     DONDERDAG |-> [Voormiddag |-> StaffedDay.Voormiddag, Namiddag |-> None]]

Schedules == <<FullSchedule, GapSchedule>>

WORK_SCHEDULE == Schedules[schedule]

----------------------------------------------------------------------------
(* check_person_availability *)

Returned(value) == [exc |-> "None", ret |-> value]
Raised(exception) == [exc |-> exception, ret |-> FALSE]

\* max(event_start_dt, proposed_slot_start) < min(event_end_dt, proposed_slot_end)
StaffOverlap(event_start_dt, event_end_dt, proposed_slot_start, proposed_slot_end) ==
    Max(event_start_dt, proposed_slot_start) < Min(event_end_dt, proposed_slot_end)

\* a slip: events with the marker in the summary are not skipped
SkippedByStaffScan_cancelled_only(event) == event.status = "cancelled"

\* events skipped by the scan: cancelled, or 'free4booking' in the summary
SkippedByStaffScan(event) ==
    event.status = "cancelled" \/ InLower(free4booking, event.summary)

\* the required staff found in the summary of an overlapping event
booked_staff_in_slot(events, all_required_staff, proposed_slot_start, proposed_slot_end) ==
    {staff_name_lower \in all_required_staff :
        \E event \in events :
            /\ ~SkippedByStaffScan(event)
            /\ StaffOverlap(parse_event_time(event.start), parse_event_time(event.end),
                            proposed_slot_start, proposed_slot_end)
            /\ InLower(staff_name_lower, event.summary)}

\* a slip: only the first name of the list is looked at
RoleAvailable_first_only(required_names, booked, i) ==
    Len(required_names) >= 1 /\ Lower(required_names[1]) \notin booked

\* for name in required_names: if name.lower() not in booked: available; break
RECURSIVE RoleAvailable(_, _, _)
RoleAvailable(required_names, booked, i) ==
    IF i > Len(required_names) THEN FALSE
    ELSE IF Lower(required_names[i]) \notin booked THEN TRUE
    ELSE RoleAvailable(required_names, booked, i + 1)

\* a slip: the two roles must be covered by two different people
BothRolesAvailable_distinct(required_exp1_names, required_exp2_names, booked) ==
    \E i \in 1..Len(required_exp1_names), j \in 1..Len(required_exp2_names) :
        /\ Lower(required_exp1_names[i]) \notin booked
        /\ Lower(required_exp2_names[j]) \notin booked
        /\ Lower(required_exp1_names[i]) # Lower(required_exp2_names[j])

\* is_exp1_available and is_exp2_available
BothRolesAvailable(required_exp1_names, required_exp2_names, booked) ==
    RoleAvailable(required_exp1_names, booked, 1) /\ RoleAvailable(required_exp2_names, booked, 1)

\* not required_exp1_names or not required_exp2_names
NotFullyStaffed(required_exp1_names, required_exp2_names) ==
    required_exp1_names = <<>> \/ required_exp2_names = <<>>

\* a slip: no except clause, a missing key ends the run
SlotScheduleLookup_uncaught(work_schedule, day_name, time_of_day) ==
    IF day_name \notin DOMAIN work_schedule THEN "TypeError"
    ELSE IF work_schedule[day_name] = None THEN "TypeError"
    ELSE IF time_of_day \notin DOMAIN work_schedule[day_name] THEN "TypeError"
    ELSE IF work_schedule[day_name][time_of_day] = None THEN "TypeError"
    ELSE IF "exp1" \notin DOMAIN work_schedule[day_name][time_of_day] THEN "TypeError"
    ELSE IF "exp2" \notin DOMAIN work_schedule[day_name][time_of_day] THEN "TypeError"
    ELSE "found"

\* the lookup work_schedule[day_name][time_of_day] with its two role lists:
\* "KeyError" is caught by the caller's except clause, "TypeError" is not
SlotScheduleLookup(work_schedule, day_name, time_of_day) ==
    IF day_name \notin DOMAIN work_schedule THEN "KeyError"
    ELSE IF work_schedule[day_name] = None THEN "TypeError"
    ELSE IF time_of_day \notin DOMAIN work_schedule[day_name] THEN "KeyError"
    ELSE IF work_schedule[day_name][time_of_day] = None THEN "TypeError"
    ELSE IF "exp1" \notin DOMAIN work_schedule[day_name][time_of_day] THEN "KeyError"
    ELSE IF "exp2" \notin DOMAIN work_schedule[day_name][time_of_day] THEN "KeyError"
    ELSE "found"

\* list_ok: whether the function's own events().list call succeeds
check_person_availability(cal, proposed_slot_start, proposed_slot_end, work_schedule, weekday_map, list_ok) ==
    LET day_of_week == WeekdayOf(proposed_slot_start)
    IN  IF day_of_week \notin DOMAIN weekday_map THEN Returned(FALSE)
        ELSE
        LET day_name    == weekday_map[day_of_week]
            time_of_day == IF HourOf(proposed_slot_start) < 12
                           THEN "Voormiddag" ELSE "Namiddag"
            lookup      == SlotScheduleLookup(work_schedule, day_name, time_of_day)
        IN  IF lookup = "KeyError" THEN Returned(FALSE)
            ELSE IF lookup = "TypeError" THEN Raised("TypeError")
            ELSE
            LET slot_schedule       == work_schedule[day_name][time_of_day]
                required_exp1_names == slot_schedule.exp1
                required_exp2_names == slot_schedule.exp2
            IN  IF NotFullyStaffed(required_exp1_names, required_exp2_names)
                THEN Returned(FALSE)
                ELSE IF ~list_ok THEN Raised("HttpError")
                ELSE
                LET all_required_staff ==
                        {Lower(required_exp1_names[i]) : i \in 1..Len(required_exp1_names)}
                        \cup {Lower(required_exp2_names[i]) : i \in 1..Len(required_exp2_names)}
                    \* 00:00:00.000000 of the slot's day up to 23:59:59.999999
                    day_start == proposed_slot_start - (proposed_slot_start % Day)
                    day_end   == proposed_slot_end - (proposed_slot_end % Day) + Day
                    events    == ListEvents(cal, day_start, day_end)
                    booked    == booked_staff_in_slot(events, all_required_staff,
                                                      proposed_slot_start, proposed_slot_end)
                IN  Returned(BothRolesAvailable(required_exp1_names, required_exp2_names,
                                                booked))

\* whether check_person_availability reaches its events().list call
StaffCheckLists(proposed_slot_start, work_schedule, weekday_map) ==
    check_person_availability({}, proposed_slot_start, proposed_slot_start,
                              work_schedule, weekday_map, FALSE).exc = "HttpError"

----------------------------------------------------------------------------
(* The slots of a day and the room check of manage_free4booking_events *)

\* (start, end, name) of the two slots of day d
slots_to_check(d) ==
    << [start_time |-> At(d, 9),  end_time |-> At(d, 12), slot_name |-> "Morning"],
       [start_time |-> At(d, 13), end_time |-> At(d, 17), slot_name |-> "Afternoon"] >>

\* a slip: <= for <
RoomOverlap_closed(event_start, event_end, start_time, end_time) ==
    Max(event_start, start_time) <= Min(event_end, end_time)

\* max(event_start, start_time) < min(event_end, end_time)
RoomOverlap(event_start, event_end, start_time, end_time) ==
    Max(event_start, start_time) < Min(event_end, end_time)

\* a slip: a cancelled event does not count as a room event
IsRoomEvent_not_cancelled(event) ==
    /\ InLower(lokaal_fa1, event.summary)
    /\ ~InLower(free4booking, event.summary)
    /\ event.status # "cancelled"

\* 'lokaal fa1' in summary and 'free4booking' not in summary
IsRoomEvent(event) ==
    /\ InLower(lokaal_fa1, event.summary)
    /\ ~InLower(free4booking, event.summary)

is_fa1_booked(events_for_day, start_time, end_time) ==
    \E event \in events_for_day :
        /\ IsRoomEvent(event)
        /\ RoomOverlap(parse_event_time(event.start), parse_event_time(event.end),
                       start_time, end_time)

\* the body handed to events().insert by create_free4booking_event
create_free4booking_event(id, start_time, end_time) ==
    TimedEvent(id, FREE4BOOKING, start_time, end_time, "confirmed")

\* a slip: every event of the day is taken for a placeholder
IsFree4Booking_any(event) == TRUE

\* 'free4booking' in event.get('summary', '').lower()
IsFree4Booking(event) == InLower(free4booking, event.summary)

----------------------------------------------------------------------------
(* scrape_events_from_web and add_fa1_bookings_to_calendar *)

\* the record scrape_events_from_web appends for a booking of lokaal FA1
ScrapedEvent(current_name, d, start_hour, end_hour) ==
    [summary |-> current_name \o lokaal_FA1_suffix,
     start |-> [dateTime |-> At(d, start_hour)],
     end   |-> [dateTime |-> At(d, end_hour)]]

\* what the web page can hold: bookings by Dan and by Ann (who is staff too)
ScrapedEvents ==
    {ScrapedEvent(Dan, 0, 9, 10), ScrapedEvent(Ann, 0, 9, 10),
     ScrapedEvent(Dan, DAYS_TO_CHECK, 12, 13)}

RECURSIVE SeqsUpTo(_, _)
SeqsUpTo(S, n) ==
    IF n = 0 THEN {<<>>}
    ELSE SeqsUpTo(S, n - 1) \cup
         {Append(q, x) : q \in {r \in SeqsUpTo(S, n - 1) : Len(r) = n - 1}, x \in S}

\* the results of a scrape; the empty one also stands for a failed fetch
Batches == SeqsUpTo(ScrapedEvents, MaxBatch)

\* (summary, start dateTime, end dateTime)
Signature(event) == <<event.summary, event.start.dateTime, event.end.dateTime>>

\* a slip: the start is taken for the end of the signature
existing_signatures_start_twice(existing_events) ==
    {<<event.summary, event.start.dateTime, event.start.dateTime>> :
        event \in {e \in existing_events :
                      "dateTime" \in DOMAIN e.start /\ "dateTime" \in DOMAIN e.end}}

\* the signatures of the listed events that have a dateTime in start and in end
existing_signatures(existing_events) ==
    {Signature(event) :
        event \in {e \in existing_events :
                      "dateTime" \in DOMAIN e.start /\ "dateTime" \in DOMAIN e.end}}

\* a slip: the signature of a created event is not remembered
AddSignature_forgotten(signatures, event_signature) == signatures

\* existing_signatures.add(event_signature)
AddSignature(signatures, event_signature) == signatures \cup {event_signature}

MinOf(S) == CHOOSE x \in S : \A y \in S : x <= y
MaxOf(S) == CHOOSE x \in S : \A y \in S : y <= x

\* the for loop over events_to_create; fail_insert is the number of the
\* events().insert call that raises HttpError (0: none does)
RECURSIVE ImportLoop(_, _, _, _)
ImportLoop(events_to_create, i, st, fail_insert) ==
    IF i > Len(events_to_create) THEN st
    ELSE
    LET event_data      == events_to_create[i]
        event_signature == Signature(event_data)
    IN  IF event_signature \in st.signatures
        THEN ImportLoop(events_to_create, i + 1, st, fail_insert)
        ELSE IF Len(st.insert_calls) + 1 = fail_insert
        THEN [st EXCEPT !.insert_calls = Append(@, [body |-> event_data, ok |-> FALSE]),
                        !.exc = "HttpError"]
        ELSE ImportLoop(events_to_create, i + 1,
                [st EXCEPT
                    !.calendar = @ \cup {TimedEvent(st.next_id, event_data.summary,
                                                    event_data.start.dateTime,
                                                    event_data.end.dateTime, "confirmed")},
                    !.created = @ \cup {st.next_id},
                    !.next_id = @ + 1,
                    !.signatures = AddSignature(@, event_signature),
                    !.insert_calls = Append(@, [body |-> event_data, ok |-> TRUE])],
                fail_insert)

\* a slip: a synchronisation that also removes the listed events that are not
\* in the scrape
add_fa1_bookings_pruning(cal, id, events_to_create, list_ok, fail_insert) ==
    LET st0 == [calendar |-> cal, next_id |-> id, created |-> {}, signatures |-> {},
                insert_calls |-> <<>>, list_calls |-> 0, exc |-> "None"]
    IN  IF events_to_create = <<>> THEN st0
        ELSE IF ~list_ok THEN [st0 EXCEPT !.list_calls = 1, !.exc = "HttpError"]
        ELSE
        LET min_time == MinOf({events_to_create[i].start.dateTime :
                                  i \in 1..Len(events_to_create)})
            max_time == MaxOf({events_to_create[i].end.dateTime :
                                  i \in 1..Len(events_to_create)})
            existing_events == ListEvents(cal, min_time, max_time)
            scraped == {e \in existing_events :
                           /\ "dateTime" \in DOMAIN e.start /\ "dateTime" \in DOMAIN e.end
                           /\ \E i \in 1..Len(events_to_create) :
                                 Signature(events_to_create[i]) = Signature(e)}
        IN  ImportLoop(events_to_create, 1,
                       [st0 EXCEPT !.list_calls = 1,
                                   !.calendar = cal \ (existing_events \ scraped),
                                   !.signatures = existing_signatures(scraped)],
                       fail_insert)

\* the whole pass: the calendar it leaves, its insert calls, and the HttpError
\* it caught, if any
add_fa1_bookings_to_calendar(cal, id, events_to_create, list_ok, fail_insert) ==
    LET st0 == [calendar |-> cal, next_id |-> id, created |-> {}, signatures |-> {},
                insert_calls |-> <<>>, list_calls |-> 0, exc |-> "None"]
    IN  IF events_to_create = <<>> THEN st0
        ELSE IF ~list_ok THEN [st0 EXCEPT !.list_calls = 1, !.exc = "HttpError"]
        ELSE
        LET min_time == MinOf({events_to_create[i].start.dateTime :
                                  i \in 1..Len(events_to_create)})
            max_time == MaxOf({events_to_create[i].end.dateTime :
                                  i \in 1..Len(events_to_create)})
            existing_events == ListEvents(cal, min_time, max_time)
        IN  ImportLoop(events_to_create, 1,
                       [st0 EXCEPT !.list_calls = 1,
                                   !.signatures = existing_signatures(existing_events)],
                       fail_insert)

----------------------------------------------------------------------------
(* delete_free4booking_events_for_day and one slot of manage_free4booking_events *)

\* the events handed to events().delete for day d
DeleteCandidates(cal, d) == {event \in get_events_for_day(cal, d) : IsFree4Booking(event)}

\* a slip: nothing is deleted
delete_nothing(cal, d, failed) == cal

\* a slip: the loop over the events ends at the first delete call that raises
delete_stops_at_failure(cal, d, failed) ==
    IF failed = {} THEN cal \ DeleteCandidates(cal, d) ELSE cal

\* the calendar the function leaves when the delete calls for `failed` raise
\* HttpError (each is caught and the loop goes on)
delete_free4booking_events_for_day(cal, d, failed) ==
    cal \ (DeleteCandidates(cal, d) \ failed)

\* a slip: the room check does not block the slot
SlotIsFree_staff_only(fa1_booked, can_create_event) == can_create_event

\* if is_fa1_booked: blocked; elif not can_create_event: blocked; else: create
SlotIsFree(fa1_booked, can_create_event) == ~fa1_booked /\ can_create_event

----------------------------------------------------------------------------
(* The events other users of the calendar have put on day d *)

ExternalEvents(d) ==
    LET id(k) == 20 * d + k
    IN  { TimedEvent(id(1), FREE4BOOKING, At(d, 9), At(d, 12), "confirmed"),
          TimedEvent(id(2), Ann \o <<" ">> \o free4booking, At(d, 13), At(d, 17), "confirmed"),
          TimedEvent(id(3), Dan \o lokaal_FA1_suffix, At(d, 9), At(d, 10), "confirmed"),
          TimedEvent(id(4), Dan \o lokaal_FA1_suffix, At(d, 12), At(d, 13), "confirmed"),
          TimedEvent(id(5), Dan \o lokaal_FA1_suffix, At(d, 14), At(d, 15), "cancelled"),
          AllDayEvent(id(6), Dan \o lokaal_FA1_suffix, d, "confirmed"),
          TimedEvent(id(7), Ann \o Les, At(d, 11), At(d, 14), "confirmed"),
          TimedEvent(id(8), BOB \o Les, At(d, 9), At(d, 12), "confirmed"),
          TimedEvent(id(9), Cid \o Les, At(d, 8), At(d, 9), "confirmed"),
          TimedEvent(id(10), Cid \o Les, At(d, 10), At(d, 11), "cancelled"),
          TimedEvent(id(11), Cid \o Les, At(d, 10), At(d, 11), "confirmed"),
          AllDayEvent(id(12), Ann \o Verlof, d, "confirmed") }

Horizon == 0..DAYS_TO_CHECK

Pool == UNION {ExternalEvents(d) : d \in Horizon}

FirstId == 20 * (DAYS_TO_CHECK + 1) + 1

\* the calendars the first run can find
RECURSIVE SubsetsUpTo(_, _)
SubsetsUpTo(S, n) ==
    IF n = 0 THEN {{}}
    ELSE LET smaller == SubsetsUpTo(S, n - 1)
         IN  smaller \cup {c \cup {x} : c \in smaller, x \in S}

Calendars(pool) == SubsetsUpTo(pool, MaxExternal)

----------------------------------------------------------------------------
(* History *)

NoCalls(op, d) ==
    [op |-> op, day |-> d, slot |-> 0, lists |-> 0, list_failed |-> FALSE,
     deletes |-> {}, inserts |-> <<>>, pass_failures |-> 0]

\* the placeholders of day d: (start, end, how many)
Placeholders(cal, d) ==
    LET P == {e \in get_events_for_day(cal, d) : IsFree4Booking(e)}
        T(e) == <<parse_event_time(e.start), parse_event_time(e.end)>>
    IN  {<<T(e)[1], T(e)[2], Cardinality({x \in P : T(x) = T(e)})>> : e \in P}

----------------------------------------------------------------------------
(* The import pass, run again and again *)

InitCommon ==
    /\ next_id = FirstId
    /\ current_date = 0
    /\ slot = 1
    /\ run = 1
    /\ failures = 0
    /\ calls = NoCalls("init", 0)
    /\ imported = {}
    /\ passes = <<>>
    /\ snapshots = [d \in Horizon |-> <<>>]

InitImport ==
    /\ calendar \in Calendars({e \in Pool : InLower(lokaal_fa1, e.summary)})
    /\ today = 0
    /\ schedule = 1
    /\ pc = "import"
    /\ InitCommon

ImportPass ==
    /\ pc = "import"
    /\ run <= MaxRuns
    /\ \E events_to_create \in Batches, list_ok \in BOOLEAN, fail_insert \in 0..MaxBatch :
         LET r == add_fa1_bookings_to_calendar(calendar, next_id, events_to_create,
                                               list_ok, fail_insert)
         IN  /\ ~list_ok => fail_insert = 0 /\ r.exc = "HttpError"
             /\ fail_insert > 0 => r.exc = "HttpError"
             /\ r.exc = "HttpError" => failures < MaxFailures
             /\ failures' = IF r.exc = "HttpError" THEN failures + 1 ELSE failures
             /\ calendar' = r.calendar
             /\ next_id' = r.next_id
             /\ imported' = imported \cup r.created
             /\ calls' = [NoCalls("import", 0) EXCEPT
                             !.lists = r.list_calls,
                             !.list_failed = ~list_ok,
                             !.inserts = r.insert_calls,
                             !.pass_failures = IF r.exc = "HttpError" THEN 1 ELSE 0]
             /\ passes' = (IF passes = <<>> THEN <<>> ELSE <<passes[Len(passes)]>>)
                          \o <<[batch |-> events_to_create, exc |-> r.exc,
                                before |-> calendar, after |-> r.calendar,
                                inserts |-> r.insert_calls]>>
    /\ run' = run + 1
    /\ UNCHANGED <<today, schedule, pc, current_date, slot, snapshots>>

NextImport == ImportPass

SpecImport == InitImport /\ [][NextImport]_vars

----------------------------------------------------------------------------
(* manage_free4booking_events, run again and again on the same date *)

InitManage ==
    /\ calendar \in Calendars(Pool)
    /\ today \in 0..6
    /\ schedule \in 1..Len(Schedules)
    /\ pc = "day"
    /\ InitCommon

\* a slip: > 5 for >= 5
IsWeekend_sunday_only(d) == WeekdayOf(At(d, 0)) > 5

\* current_date.weekday() >= 5
IsWeekend(d) == WeekdayOf(At(d, 0)) >= 5

\* while current_date <= end_date, on a Saturday or Sunday: continue
SkipWeekend ==
    /\ pc = "day"
    /\ current_date <= DAYS_TO_CHECK
    /\ IsWeekend(current_date)
    /\ current_date' = current_date + 1
    /\ calls' = NoCalls("skip", current_date)
    /\ UNCHANGED <<calendar, next_id, today, schedule, pc, slot, run, failures,
                   imported, passes, snapshots>>

\* on a weekday: delete_free4booking_events_for_day. Its events().list call is
\* not inside a try: when it fails the run ends with the HttpError.
DeleteStep ==
    /\ pc = "day"
    /\ current_date <= DAYS_TO_CHECK
    /\ ~IsWeekend(current_date)
    /\ \E candidates \in {DeleteCandidates(calendar, current_date)} :
       \E list_ok \in BOOLEAN, failed \in SUBSET candidates :
         /\ ~list_ok => failed = {}
         /\ failures + Cardinality(failed) + (IF list_ok THEN 0 ELSE 1) <= MaxFailures
         /\ failures' = failures + Cardinality(failed) + (IF list_ok THEN 0 ELSE 1)
         /\ calendar' = IF list_ok
                        THEN delete_free4booking_events_for_day(calendar, current_date, failed)
                        ELSE calendar
         /\ pc' = IF list_ok THEN "slot" ELSE "crashed"
         /\ calls' = [NoCalls("delete", current_date) EXCEPT
                         !.lists = 1,
                         !.list_failed = ~list_ok,
                         !.deletes = IF list_ok
                                     THEN {[event |-> e, ok |-> e \notin failed] :
                                              e \in candidates}
                                     ELSE {},
                         !.pass_failures = Cardinality(failed) + (IF list_ok THEN 0 ELSE 1)]
    /\ slot' = 1
    /\ UNCHANGED <<next_id, today, schedule, current_date, run, imported, passes, snapshots>>

\* what one iteration of `for start_time, end_time, slot_name in slots_to_check`
\* does, given the result of the room check and of check_person_availability.
\* outcome names the gateway call that raises HttpError, if one does: the list
\* of get_events_for_day and the list inside check_person_availability end the
\* run, the insert of create_free4booking_event is caught.
SlotOutcome(cal, body, fa1_booked, staff, outcome) ==
    LET free == /\ outcome # "list_fails"
                /\ staff.exc = "None"
                /\ SlotIsFree(fa1_booked, staff.ret)
    IN  [raised   |-> outcome = "list_fails" \/ staff.exc # "None",
         inserts  |-> IF free THEN <<[body |-> body, ok |-> outcome = "ok"]>> ELSE <<>>,
         calendar |-> IF free /\ outcome = "ok" THEN cal \cup {body} ELSE cal,
         created  |-> IF free /\ outcome = "ok" THEN 1 ELSE 0]

\* the iteration for slot i of day d
evaluate_slot(cal, id, d, i, outcome) ==
    LET s == slots_to_check(d)[i]
    IN  SlotOutcome(cal,
                    create_free4booking_event(id, s.start_time, s.end_time),
                    is_fa1_booked(get_events_for_day(cal, d), s.start_time, s.end_time),
                    check_person_availability(cal, s.start_time, s.end_time, WORK_SCHEDULE,
                                              WEEKDAY_MAP_NL, outcome # "staff_list_fails"),
                    outcome)

SlotStep ==
    /\ pc = "slot"
    /\ \E outcome \in {"ok", "list_fails", "staff_list_fails", "insert_fails"} :
       \E r \in {evaluate_slot(calendar, next_id, current_date, slot, outcome)} :
       \E staff_lists \in {StaffCheckLists(slots_to_check(current_date)[slot].start_time,
                                           WORK_SCHEDULE, WEEKDAY_MAP_NL)} :
         LET last_slot  == slot = Len(slots_to_check(current_date))
             failed_now == IF outcome = "ok" THEN 0 ELSE 1
         IN  /\ outcome = "staff_list_fails" => staff_lists
             /\ outcome = "insert_fails" => r.inserts # <<>>
             /\ outcome # "ok" => failures < MaxFailures
             /\ failures' = failures + failed_now
             /\ calendar' = r.calendar
             /\ next_id' = next_id + r.created
             /\ pc' = IF r.raised THEN "crashed" ELSE IF last_slot THEN "day" ELSE "slot"
             /\ slot' = IF r.raised \/ last_slot THEN 1 ELSE slot + 1
             /\ current_date' = IF ~r.raised /\ last_slot THEN current_date + 1
                                ELSE current_date
             /\ calls' = [NoCalls("slot", current_date) EXCEPT
                             !.slot = slot,
                             !.lists = IF outcome = "list_fails" THEN 1
                                       ELSE IF staff_lists THEN 2 ELSE 1,
                             !.list_failed = outcome \in {"list_fails", "staff_list_fails"},
                             !.inserts = r.inserts,
                             !.pass_failures = calls.pass_failures + failed_now]
             /\ snapshots' =
                    IF ~r.raised /\ last_slot
                    THEN [snapshots EXCEPT ![current_date] =
                            Append(@, [placeholders |-> Placeholders(r.calendar, current_date),
                                       failures |-> calls.pass_failures + failed_now])]
                    ELSE snapshots
    /\ UNCHANGED <<today, schedule, run, imported, passes>>

\* the while loop ends after end_date
FinishRun ==
    /\ pc = "day"
    /\ current_date > DAYS_TO_CHECK
    /\ pc' = "done"
    /\ calls' = NoCalls("finish", current_date)
    /\ UNCHANGED <<calendar, next_id, today, schedule, current_date, slot, run, failures,
                   imported, passes, snapshots>>

\* the program is invoked again
RunAgain ==
    /\ pc \in {"done", "crashed"}
    /\ run < MaxRuns
    /\ run' = run + 1
    /\ pc' = "day"
    /\ current_date' = 0
    /\ slot' = 1
    /\ calls' = NoCalls("start", 0)
    /\ UNCHANGED <<calendar, next_id, today, schedule, failures, imported, passes,
                   snapshots>>

NextManage == SkipWeekend \/ DeleteStep \/ SlotStep \/ FinishRun \/ RunAgain

SpecManage == InitManage /\ [][NextManage]_vars

----------------------------------------------------------------------------
(* main: one invocation of the program, the import pass and then the days *)

\* events the calendar holds before an invocation of main
MaxExternalMain == 1

Init ==
    /\ calendar \in SubsetsUpTo(Pool, MaxExternalMain)
    /\ today \in 0..6
    /\ schedule \in 1..Len(Schedules)
    /\ pc = "import"
    /\ InitCommon

\* a slip: the HttpError of the import pass is raised again and ends the run
after_import_reraise(exc) == IF exc = "HttpError" THEN "crashed" ELSE "day"

\* where main stands when add_fa1_bookings_to_calendar has returned: the
\* HttpError of a gateway call is caught and printed inside the function
after_import(exc) == "day"

\* add_fa1_bookings_to_calendar(service) as main calls it: whatever the scrape
\* returned and whichever call failed, it returns and
\* manage_free4booking_events is called next
ImportStep ==
    /\ pc = "import"
    /\ \E events_to_create \in Batches, list_ok \in BOOLEAN, fail_insert \in 0..MaxBatch :
         \E r \in {add_fa1_bookings_to_calendar(calendar, next_id, events_to_create,
                                                list_ok, fail_insert)} :
             /\ ~list_ok => fail_insert = 0 /\ r.exc = "HttpError"
             /\ fail_insert > 0 => r.exc = "HttpError"
             /\ r.exc = "HttpError" => failures < MaxFailures
             /\ failures' = IF r.exc = "HttpError" THEN failures + 1 ELSE failures
             /\ pc' = after_import(r.exc)
             /\ calendar' = r.calendar
             /\ next_id' = r.next_id
             /\ imported' = imported \cup r.created
             /\ calls' = [NoCalls("import", 0) EXCEPT
                             !.lists = r.list_calls,
                             !.list_failed = ~list_ok,
                             !.inserts = r.insert_calls,
                             !.pass_failures = IF r.exc = "HttpError" THEN 1 ELSE 0]
             /\ passes' = Append(passes, [batch |-> events_to_create, exc |-> r.exc,
                                          before |-> calendar, after |-> r.calendar,
                                          inserts |-> r.insert_calls])
    /\ UNCHANGED <<today, schedule, current_date, slot, run, snapshots>>

Next == ImportStep \/ SkipWeekend \/ DeleteStep \/ SlotStep \/ FinishRun

Spec == Init /\ [][Next]_vars

----------------------------------------------------------------------------
(* Claims about the import pass (checked under SpecImport) *)

LastPass == passes[Len(passes)]

SameBatchTwice ==
    /\ Len(passes) = 2
    /\ passes[1].batch = passes[2].batch
    /\ passes[2].before = passes[1].after

C2_NoDuplicateImport ==
    /\ \A e1, e2 \in calendar :
          (e1.id \in imported /\ e2.id \in imported /\ e1 # e2)
              => Signature(e1) # Signature(e2)
    /\ \A i, j \in 1..Len(calls.inserts) :
          i # j => Signature(calls.inserts[i].body) # Signature(calls.inserts[j].body)
    /\ (passes # <<>> /\ LastPass.exc = "None") =>
          \A k \in 1..Len(LastPass.batch) :
              (\A e \in LastPass.before :
                  "dateTime" \in DOMAIN e.start =>
                      Signature(e) # Signature(LastPass.batch[k]))
              => Cardinality({i \in 1..Len(LastPass.inserts) :
                                 LastPass.inserts[i].body = LastPass.batch[k]}) = 1

\* a batch holding one record twice, for which one event was created
C2_Witness ==
    /\ passes # <<>>
    /\ Len(LastPass.batch) = 2
    /\ LastPass.batch[1] = LastPass.batch[2]
    /\ Len(LastPass.inserts) = 1
    /\ LastPass.inserts[1].ok

----------------------------------------------------------------------------
(* Claims about the placeholder pass (checked under SpecManage) *)

Slots == 1..2

SlotOf(d, i) == slots_to_check(d)[i]

\* the intervals [start, end) of the event and [from, to) have a point in common
Intersects(event, from, to) ==
    /\ parse_event_time(event.start) < to
    /\ from < parse_event_time(event.end)
    /\ parse_event_time(event.start) < parse_event_time(event.end)

\* the pass of day calls.day has just completed
PassCompleted == calls.op = "slot" /\ calls.slot = 2 /\ pc = "day"

\* the events named 'Free4Booking' that occupy slot i of day d
PlaceholdersAt(d, i) ==
    {e \in calendar : /\ e.summary = FREE4BOOKING
                      /\ parse_event_time(e.start) = SlotOf(d, i).start_time
                      /\ parse_event_time(e.end) = SlotOf(d, i).end_time}

\* C3: whenever the pass of a weekday has completed, the calendar holds at most
\* one placeholder for each slot of that day, whichever delete or insert calls
\* failed during the pass.
C3_AtMostOnePlaceholderPerSlot ==
    PassCompleted => \A i \in Slots : Cardinality(PlaceholdersAt(calls.day, i)) <= 1

\* a room reservation: the summary names the room, it is no placeholder and it
\* is not cancelled
RoomReservation(e) ==
    /\ InLower(lokaal_fa1, e.summary)
    /\ ~InLower(free4booking, e.summary)
    /\ e.status # "cancelled"

\* C4: no insert call for a placeholder is issued for a slot that a room
\* reservation in the calendar overlaps, whatever the work schedule allows.
C4_RoomOccupancyGate ==
    calls.op = "slot" =>
        \A k \in 1..Len(calls.inserts) :
            ~\E e \in calendar :
                /\ RoomReservation(e)
                /\ Intersects(e, calls.inserts[k].body.start.dateTime,
                              calls.inserts[k].body.end.dateTime)

\* a slot that the staff could cover was evaluated and no insert call was
\* issued, because a room reservation overlaps it
C4_Witness ==
    /\ calls.op = "slot" /\ ~calls.list_failed
    /\ calls.inserts = <<>>
    /\ \E e \in calendar :
          /\ RoomReservation(e)
          /\ Intersects(e, SlotOf(calls.day, calls.slot).start_time,
                        SlotOf(calls.day, calls.slot).end_time)
    /\ check_person_availability(calendar, SlotOf(calls.day, calls.slot).start_time,
                                 SlotOf(calls.day, calls.slot).end_time, WORK_SCHEDULE,
                                 WEEKDAY_MAP_NL, TRUE) = Returned(TRUE)

\* C5 as stated: two completed passes for the same day leave the same
\* placeholders (same slots, same count).
C5_SecondPassSamePlaceholders ==
    \A d \in Horizon : \A k \in 1..(Len(snapshots[d]) - 1) :
        snapshots[d][k + 1].placeholders = snapshots[d][k].placeholders

\* Two completed passes for the same day, in neither of which a gateway call
\* failed, leave the same placeholders (same slots, same count).
C5_IdempotentPlaceholderPass ==
    \A d \in Horizon : \A k \in 1..(Len(snapshots[d]) - 1) :
        (snapshots[d][k].failures = 0 /\ snapshots[d][k + 1].failures = 0)
            => snapshots[d][k + 1].placeholders = snapshots[d][k].placeholders

\* a day that two passes without a failed call left with a placeholder
C5_Witness ==
    \E d \in Horizon :
        /\ Len(snapshots[d]) = 2
        /\ snapshots[d][1].failures = 0 /\ snapshots[d][2].failures = 0
        /\ snapshots[d][2].placeholders # {}

\* the schedule entry of slot i of day d, when the day is a mapped weekday that
\* has an entry with both role lists for the period of the slot
Period(i) == IF i = 1 THEN "Voormiddag" ELSE "Namiddag"

DayName(d) == WEEKDAY_MAP_NL[(today + d) % 7]

HasEntry(d, i) ==
    /\ (today + d) % 7 \in 0..4
    /\ DayName(d) \in DOMAIN WORK_SCHEDULE
    /\ WORK_SCHEDULE[DayName(d)] # None
    /\ Period(i) \in DOMAIN WORK_SCHEDULE[DayName(d)]
    /\ WORK_SCHEDULE[DayName(d)][Period(i)] # None
    /\ {"exp1", "exp2"} \subseteq DOMAIN WORK_SCHEDULE[DayName(d)][Period(i)]

Entry(d, i) == WORK_SCHEDULE[DayName(d)][Period(i)]

FullyStaffed(d, i) ==
    HasEntry(d, i) /\ Entry(d, i).exp1 # <<>> /\ Entry(d, i).exp2 # <<>>

\* the staff check of slot i of day d on calendar cal, with work schedule ws
StaffCheck(cal, d, i, ws, list_ok) ==
    check_person_availability(cal, SlotOf(d, i).start_time, SlotOf(d, i).end_time,
                              ws, WEEKDAY_MAP_NL, list_ok)

\* name is booked during slot i of day d: an event that is not cancelled and
\* is no placeholder overlaps the slot and has the name in its summary
Booked(name, d, i) ==
    \E e \in calendar :
        /\ e.status # "cancelled"
        /\ ~InLower(free4booking, e.summary)
        /\ Intersects(e, SlotOf(d, i).start_time, SlotOf(d, i).end_time)
        /\ InLower(Lower(name), e.summary)

Covered(names, d, i) == \E k \in 1..Len(names) : ~Booked(names[k], d, i)

\* the orders of a list of names
Orders(names) ==
    {[k \in 1..Len(names) |-> names[p[k]]] :
        p \in {q \in [1..Len(names) -> 1..Len(names)] :
                  \A a, b \in 1..Len(names) : a # b => q[a] # q[b]}}

\* C6: for every slot with a fully staffed schedule entry,
\* check_person_availability returns true exactly when each of the two roles
\* lists a name that is not booked, and it returns the same for every order of
\* the names in the two lists.
C6_StaffingCoverageRule ==
    \A d \in Horizon, i \in Slots :
        FullyStaffed(d, i) =>
            \A covered \in {Covered(Entry(d, i).exp1, d, i) /\ Covered(Entry(d, i).exp2, d, i)} :
                \A exp1 \in Orders(Entry(d, i).exp1), exp2 \in Orders(Entry(d, i).exp2) :
                    StaffCheck(calendar, d, i,
                               [WORK_SCHEDULE EXCEPT ![DayName(d)][Period(i)] =
                                   [exp1 |-> exp1, exp2 |-> exp2]], TRUE)
                    = Returned(covered)

\* a placeholder was created for a slot whose first exp1 name is booked and
\* whose second exp1 name covers the role
C6_Witness ==
    /\ calls.op = "slot" /\ calls.inserts # <<>>
    /\ FullyStaffed(calls.day, calls.slot)
    /\ Len(Entry(calls.day, calls.slot).exp1) = 2
    /\ Booked(Entry(calls.day, calls.slot).exp1[1], calls.day, calls.slot)
    /\ ~Booked(Entry(calls.day, calls.slot).exp1[2], calls.day, calls.slot)

\* the schedule has a gap at slot i of day d: the weekday is not mapped or has
\* no entry, the period has no entry, a role list is missing or is empty
ScheduleGap(d, i) ==
    \/ (today + d) % 7 \notin DOMAIN WEEKDAY_MAP_NL
    \/ DayName(d) \notin DOMAIN WORK_SCHEDULE
    \/ /\ WORK_SCHEDULE[DayName(d)] # None
       /\ Period(i) \notin DOMAIN WORK_SCHEDULE[DayName(d)]
    \/ /\ WORK_SCHEDULE[DayName(d)] # None
       /\ Period(i) \in DOMAIN WORK_SCHEDULE[DayName(d)]
       /\ WORK_SCHEDULE[DayName(d)][Period(i)] # None
       /\ \/ "exp1" \notin DOMAIN WORK_SCHEDULE[DayName(d)][Period(i)]
          \/ "exp2" \notin DOMAIN WORK_SCHEDULE[DayName(d)][Period(i)]
          \/ WORK_SCHEDULE[DayName(d)][Period(i)].exp1 = <<>>
          \/ WORK_SCHEDULE[DayName(d)][Period(i)].exp2 = <<>>

\* C7: for every slot at a gap of the schedule the staff check returns false
\* and raises nothing; when such a slot has been evaluated no insert call was
\* issued, and unless the list call of the slot failed the run has moved on to
\* the next slot.
C7_ScheduleGapIsNotAnError ==
    /\ \A d \in Horizon, i \in Slots :
          ScheduleGap(d, i) =>
              \A list_ok \in BOOLEAN :
                  StaffCheck(calendar, d, i, WORK_SCHEDULE, list_ok) = Returned(FALSE)
    /\ (calls.op = "slot" /\ ScheduleGap(calls.day, calls.slot)) =>
          /\ calls.inserts = <<>>
          /\ ~calls.list_failed =>
                IF calls.slot = 1
                THEN pc = "slot" /\ slot = 2 /\ current_date = calls.day
                ELSE pc = "day" /\ current_date = calls.day + 1

\* the morning slot of a day was at a gap, the room was free, and the run is
\* at the afternoon slot
C7_Witness ==
    /\ calls.op = "slot" /\ calls.slot = 1 /\ ~calls.list_failed
    /\ ScheduleGap(calls.day, 1)
    /\ ~\E e \in calendar :
           RoomReservation(e) /\ Intersects(e, SlotOf(calls.day, 1).start_time,
                                            SlotOf(calls.day, 1).end_time)
    /\ pc = "slot" /\ slot = 2

\* the events that end at the start of slot i of day d or start at its end
Touching(d, i) ==
    {e \in calendar : \/ parse_event_time(e.end) = SlotOf(d, i).start_time
                      \/ parse_event_time(e.start) = SlotOf(d, i).end_time}

RoomCheck(cal, d, i) ==
    is_fa1_booked(get_events_for_day(cal, d), SlotOf(d, i).start_time, SlotOf(d, i).end_time)

\* C8: for every slot, the room check and the staff check give the same result
\* with and without the events that end at the slot's start or start at its
\* end; the room check finds the room booked exactly when a room event shares
\* a point of [start, end) with the slot. (C6 states the same of the staff
\* check.)
C8_HalfOpenOverlap ==
    \A d \in Horizon, i \in Slots :
        /\ RoomCheck(calendar \ Touching(d, i), d, i) = RoomCheck(calendar, d, i)
        /\ StaffCheck(calendar \ Touching(d, i), d, i, WORK_SCHEDULE, TRUE)
               = StaffCheck(calendar, d, i, WORK_SCHEDULE, TRUE)
        /\ RoomCheck(calendar, d, i) =
               \E e \in calendar :
                   /\ InLower(lokaal_fa1, e.summary)
                   /\ ~InLower(free4booking, e.summary)
                   /\ Intersects(e, SlotOf(d, i).start_time, SlotOf(d, i).end_time)

\* a placeholder was created for a slot although a room reservation ends at
\* its start or starts at its end, and a required name is in the summary of an
\* event that ends at its start
C8_Witness ==
    /\ calls.op = "slot" /\ calls.inserts # <<>>
    /\ \E e \in Touching(calls.day, calls.slot) : RoomReservation(e)
    /\ \E e \in Touching(calls.day, calls.slot) :
          /\ e.status # "cancelled"
          /\ \E k \in 1..Len(Entry(calls.day, calls.slot).exp2) :
                InLower(Lower(Entry(calls.day, calls.slot).exp2[k]), e.summary)

\* the event lies within a Saturday or Sunday of the horizon
OnWeekendDay(e) ==
    \E d \in Horizon :
        /\ (today + d) % 7 \in {5, 6}
        /\ At(d, 0) <= parse_event_time(e.start)
        /\ parse_event_time(e.end) <= At(d + 1, 0)

\* C9: no delete call and no insert call is issued for an event on a Saturday
\* or Sunday, the step that skips such a day issues no call at all, and no
\* step removes an event from or adds an event to such a day.
C9_WeekendSkip ==
    /\ [](/\ \A c \in calls.deletes : ~OnWeekendDay(c.event)
          /\ \A k \in 1..Len(calls.inserts) : ~OnWeekendDay(calls.inserts[k].body)
          /\ calls.op = "skip" =>
                /\ (today + calls.day) % 7 \in {5, 6}
                /\ calls.lists = 0 /\ calls.deletes = {} /\ calls.inserts = <<>>)
    /\ [][\A e \in calendar \cup calendar' :
              OnWeekendDay(e) => (e \in calendar /\ e \in calendar')]_vars

\* a run has finished and a placeholder is still on a Saturday or Sunday of
\* the horizon
C9_Witness ==
    /\ pc = "done"
    /\ \E e \in calendar : e.summary = FREE4BOOKING /\ OnWeekendDay(e)

\* C10 as stated: every event handed to a delete call has the summary
\* 'Free4Booking'.
C10_DeletesOnlyExactMarker ==
    \A c \in calls.deletes : c.event.summary = FREE4BOOKING

\* C10 as amended: every event handed to a delete call has 'free4booking' in
\* its lower-cased summary.
C10_DeleteScope ==
    \A c \in calls.deletes : InLower(free4booking, c.event.summary)

\* an event whose summary is not 'Free4Booking' was deleted
C10_Witness ==
    \E c \in calls.deletes : c.ok /\ c.event.summary # FREE4BOOKING

----------------------------------------------------------------------------
(* Claims about failing gateway calls in the placeholder pass *)

\* C11: after delete_free4booking_events_for_day has listed the day's events,
\* a delete call was issued for every event with the marker, whichever of the
\* calls failed: the events deleted are gone, the ones left are those whose
\* own call failed, and the pass goes on to the slots. After the insert call
\* for a slot has failed the run goes on with the other slot of the day, and
\* after the afternoon slot with the next day.
C11_WriteFailuresContained ==
    /\ (calls.op = "delete" /\ ~calls.list_failed) =>
          /\ \A c \in calls.deletes : c.ok => c.event \notin calendar
          /\ \A e \in DeleteCandidates(calendar, calls.day) :
                [event |-> e, ok |-> FALSE] \in calls.deletes
          /\ pc = "slot" /\ slot = 1 /\ current_date = calls.day
    /\ (calls.op = "slot" /\ \E k \in 1..Len(calls.inserts) : ~calls.inserts[k].ok) =>
          IF calls.slot = 1
          THEN pc = "slot" /\ slot = 2 /\ current_date = calls.day
          ELSE pc = "day" /\ current_date = calls.day + 1

\* of the two delete calls for a day one failed and the other one deleted its
\* event
C11_Witness ==
    /\ calls.op = "delete"
    /\ \E c1, c2 \in calls.deletes : ~c1.ok /\ c2.ok /\ c2.event \notin calendar

----------------------------------------------------------------------------
(* Claims about failing gateway calls in the import pass (SpecImport) *)

\* the record's signature is not among the signatures the pass found
NotYetPresent(record, before) ==
    Signature(record) \notin existing_signatures(before)

\* C12 as stated: when an insert call of an import pass has failed, an insert
\* call was still issued for every record of the batch whose signature the
\* calendar did not hold.
C12_ImportContinuesAfterFailedInsert ==
    (calls.op = "import" /\ \E k \in 1..Len(calls.inserts) : ~calls.inserts[k].ok) =>
        \A k \in 1..Len(LastPass.batch) :
            NotYetPresent(LastPass.batch[k], LastPass.before) =>
                \E i \in 1..Len(calls.inserts) : calls.inserts[i].body = LastPass.batch[k]

\* C15: an import pass issues no delete call and at most one list call; every
\* event the calendar held before the pass is in it unchanged after the pass,
\* and every event the pass added answers a successful insert call of the pass
\* with the record's summary, start and end; this for every batch and whichever
\* call failed.
C15_ImportIsAppendOnly ==
    (calls.op = "import") =>
        /\ calls.deletes = {} /\ calls.lists <= 1
        /\ LastPass.before \subseteq LastPass.after
        /\ LastPass.after = calendar
        /\ \A e \in LastPass.after \ LastPass.before :
              \E i \in 1..Len(calls.inserts) :
                  /\ calls.inserts[i].ok
                  /\ Signature(calls.inserts[i].body) = Signature(e)
        /\ Cardinality(LastPass.after \ LastPass.before)
               = Cardinality({i \in 1..Len(calls.inserts) : calls.inserts[i].ok})

\* a pass created an event and, after that, an insert call of it failed; the
\* events the list call had returned, one of them not in the scrape, are still
\* in the calendar
C15_Witness ==
    /\ calls.op = "import"
    /\ Len(calls.inserts) = 2 /\ calls.inserts[1].ok /\ ~calls.inserts[2].ok
    /\ \E e \in LastPass.before :
          /\ "date" \in DOMAIN e.start
          /\ e \in calendar

----------------------------------------------------------------------------
(* Claims about failing list calls in the placeholder pass (SpecManage) *)

\* C13 as stated: when a list call made for a day has failed (the one of
\* delete_free4booking_events_for_day, of the room check or of the staff
\* check), the run has not ended: it stands at the next day.
C13_ListFailureAbortsOnlyTheDay ==
    (calls.op \in {"delete", "slot"} /\ calls.list_failed) =>
        pc = "day" /\ current_date = calls.day + 1

----------------------------------------------------------------------------
(* The days of the horizon processed in another order (SpecManage) *)

\* one iteration of the while loop for day d in which no gateway call fails:
\* nothing on a Saturday or Sunday, else the deletes and the two slots;
\* raised when check_person_availability raises for one of the slots
placeholder_pass(cal, id, d) ==
    IF IsWeekend(d) THEN [calendar |-> cal, next_id |-> id, raised |-> FALSE]
    ELSE
    LET cal0 == delete_free4booking_events_for_day(cal, d, {})
        r1   == evaluate_slot(cal0, id, d, 1, "ok")
        r2   == evaluate_slot(r1.calendar, id + r1.created, d, 2, "ok")
    IN  IF r1.raised THEN [calendar |-> r1.calendar, next_id |-> id, raised |-> TRUE]
        ELSE [calendar |-> r2.calendar, next_id |-> id + r1.created + r2.created,
              raised |-> r2.raised]

\* the days order[k], order[k + 1], ... processed one after the other
RECURSIVE process_days(_, _, _)
process_days(st, order, k) ==
    IF k > Len(order) \/ st.raised THEN st
    ELSE process_days(placeholder_pass(st.calendar, st.next_id, order[k]), order, k + 1)

ProcessAll(cal, order) ==
    process_days([calendar |-> cal, next_id |-> next_id, raised |-> FALSE], order, 1)

Chronological == [k \in 1..(DAYS_TO_CHECK + 1) |-> k - 1]

\* what the claim compares: the placeholders of every day, and the other events
FinalState(cal) ==
    [placeholders |-> [d \in Horizon |-> Placeholders(cal, d)],
     others       |-> {e \in cal : ~IsFree4Booking(e)}]

\* a run is about to process its first day
RunStarts == pc = "day" /\ current_date = 0

\* C14: for the calendar a run finds and the work schedule, when the passes of
\* all days complete, every order of the days leaves the same placeholders on
\* every day (and the same other events) as the chronological order does, and
\* the pass of a day leaves the same placeholders on that day whether or not
\* another day was processed before it.
C14_DayIndependence ==
    RunStarts =>
        \A chrono \in {ProcessAll(calendar, Chronological)} :
            ~chrono.raised =>
                /\ \A order \in Orders(Chronological) :
                      \A r \in {ProcessAll(calendar, order)} :
                          ~r.raised /\ FinalState(r.calendar) = FinalState(chrono.calendar)
                /\ \A d, other \in Horizon :
                      d # other =>
                          Placeholders(ProcessAll(calendar, <<other, d>>).calendar, d)
                              = Placeholders(ProcessAll(calendar, <<d>>).calendar, d)

\* a run over two weekdays has finished without a failed call: it removed a
\* stale placeholder and left placeholders on both days
C14_Witness ==
    /\ pc = "done" /\ run = 1 /\ failures = 0
    /\ \A d \in Horizon :
          /\ Len(snapshots[d]) = 1
          /\ snapshots[d][1].placeholders # {}
    /\ \E e \in calendar : RoomReservation(e)
    /\ FinalState(ProcessAll(calendar, <<1, 0>>).calendar) = FinalState(calendar)

----------------------------------------------------------------------------
(* Claims about one invocation of main (Spec) *)

\* the import pass of this invocation
TheImport == passes[1]

\* the weekdays of the horizon
Weekdays == {d \in Horizon : ~IsWeekend(d)}

\* the event lies within day d
OnDay(e, d) ==
    /\ At(d, 0) <= parse_event_time(e.start)
    /\ parse_event_time(e.end) <= At(d + 1, 0)

\* C16: the import pass runs before any call of the placeholder phase and
\* runs once; and when the invocation has finished without a failed gateway
\* call, no event with the marker on a weekday of the horizon overlaps a
\* record of the scrape of this invocation.
C16_ImportPrecedesPlaceholders ==
    /\ pc = "import" => passes = <<>> /\ calls.op = "init" /\ snapshots = [d \in Horizon |-> <<>>]
    /\ pc # "import" => Len(passes) = 1
    /\ calls.op \in {"skip", "delete", "slot", "finish"} => Len(passes) = 1
    /\ (pc = "done" /\ failures = 0) =>
          \A k \in 1..Len(TheImport.batch), d \in Weekdays :
              ~\E e \in calendar :
                  /\ IsFree4Booking(e) /\ OnDay(e, d)
                  /\ Intersects(e, TheImport.batch[k].start.dateTime,
                                TheImport.batch[k].end.dateTime)

\* the import created the event of a record for the morning of the first day,
\* no event was in the calendar before, and the finished run has left a
\* placeholder on the afternoon of that day and none on its morning
C16_Witness ==
    /\ pc = "done" /\ failures = 0
    /\ TheImport.before = {}
    /\ \E k \in 1..Len(TheImport.inserts) :
          /\ TheImport.inserts[k].ok
          /\ TheImport.inserts[k].body.start.dateTime = At(0, 9)
    /\ PlaceholdersAt(0, 1) = {}
    /\ PlaceholdersAt(0, 2) # {}

\* the import pass of this invocation had a problem: the scrape returned
\* nothing (source unreachable or unparsable), or a gateway call failed
ImportProblem ==
    /\ Len(passes) = 1
    /\ TheImport.batch = <<>> \/ TheImport.exc = "HttpError"

\* the placeholder pass of every weekday of the horizon has completed
EveryWeekdayProcessed ==
    \A d \in Weekdays : Len(snapshots[d]) = 1

\* the run was ended by the placeholder phase itself: a failed list call, or
\* the TypeError of a null schedule entry
EndedInPlaceholderPhase ==
    pc = "crashed" /\ calls.op \in {"delete", "slot"}

\* C18: an import pass that is given no records makes no gateway call and
\* changes nothing; after the import pass, whatever its problem, the run
\* stands at the first day of the placeholder phase; a run never ends in the
\* import pass; a run whose import pass had a problem and that has not ended
\* can always take the next step of the placeholder phase; and a finished run
\* has completed the placeholder pass of every weekday of the horizon.
C18_ImportProblemsNeverStopPlaceholders ==
    /\ (calls.op = "import" /\ TheImport.batch = <<>>) =>
          /\ calls.lists = 0 /\ calls.inserts = <<>>
          /\ calendar = TheImport.before /\ imported = {}
    /\ calls.op = "import" => (pc = "day" /\ current_date = 0)
    /\ pc = "crashed" => EndedInPlaceholderPhase
    /\ (ImportProblem /\ pc \notin {"done", "crashed"}) =>
          ENABLED (SkipWeekend \/ DeleteStep \/ SlotStep \/ FinishRun)
    /\ pc = "done" => EveryWeekdayProcessed

\* the list call of the import pass failed, and the run has finished and has
\* created a placeholder on each of two weekdays
C18_Witness ==
    /\ pc = "done"
    /\ Len(passes) = 1 /\ TheImport.exc = "HttpError" /\ TheImport.inserts = <<>>
    /\ Weekdays = Horizon
    /\ \A d \in Horizon : snapshots[d][1].placeholders # {}

----------------------------------------------------------------------------
(* Claims about the events the two checks read (SpecManage) *)

\* every name a schedule lists, as the staff scan looks for it
AllStaff == {Lower(Ann), Lower(Bob), Lower(Cid)}

\* the events the claim says the staff scan ignores
IgnoredByStaffScan(cal) ==
    {e \in cal : e.status = "cancelled" \/ InLower(free4booking, e.summary)}

\* the names the scan finds booked in slot i of day d
BookedNames(cal, d, i) ==
    booked_staff_in_slot(cal, AllStaff, SlotOf(d, i).start_time, SlotOf(d, i).end_time)

\* an event with the marker and the name of a member of staff over slot i
MarkerEventOver(d, i) ==
    TimedEvent(0, Ann \o <<" ">> \o free4booking,
               SlotOf(d, i).start_time, SlotOf(d, i).end_time, "confirmed")

\* C17: for every slot, the names found booked and the result of the staff
\* check are the same with and without the cancelled events and the events
\* with the marker in the summary, and the result is the same with one more
\* event with the marker over the slot.
C17_EventsIgnoredByStaffScan ==
    \A d \in Horizon, i \in Slots :
        \A kept \in {calendar \ IgnoredByStaffScan(calendar)} :
        \A result \in {StaffCheck(calendar, d, i, WORK_SCHEDULE, TRUE)} :
            /\ BookedNames(kept, d, i) = BookedNames(calendar, d, i)
            /\ StaffCheck(kept, d, i, WORK_SCHEDULE, TRUE) = result
            /\ StaffCheck(calendar \cup {MarkerEventOver(d, i)}, d, i, WORK_SCHEDULE, TRUE)
                   = result

\* a placeholder was created for a slot although a cancelled event over the
\* slot names the only member of staff of a role
C17_Witness ==
    /\ calls.op = "slot" /\ calls.inserts # <<>>
    /\ FullyStaffed(calls.day, calls.slot)
    /\ \E e \in calendar :
          /\ e.status = "cancelled"
          /\ Intersects(e, SlotOf(calls.day, calls.slot).start_time,
                        SlotOf(calls.day, calls.slot).end_time)
          /\ Entry(calls.day, calls.slot).exp2 = <<Cid>>
          /\ InLower(Lower(Cid), e.summary)

\* the names of a role list
NamesOf(names) == {names[k] : k \in 1..Len(names)}

\* C19: for every slot with a fully staffed schedule entry, when a name that
\* is listed for both roles is not booked the staff check returns true,
\* whoever else is booked; and it returns true for an entry that lists one and
\* the same person, who is not booked, as the only name of both roles.
C19_RolesCoveredIndependently ==
    \A d \in Horizon, i \in Slots :
        FullyStaffed(d, i) =>
            /\ (\E name \in NamesOf(Entry(d, i).exp1) \cap NamesOf(Entry(d, i).exp2) :
                    ~Booked(name, d, i))
                   => StaffCheck(calendar, d, i, WORK_SCHEDULE, TRUE) = Returned(TRUE)
            /\ \A name \in NamesOf(Entry(d, i).exp1) :
                  ~Booked(name, d, i) =>
                      StaffCheck(calendar, d, i,
                                 [WORK_SCHEDULE EXCEPT ![DayName(d)][Period(i)] =
                                     [exp1 |-> <<name>>, exp2 |-> <<name>>]], TRUE)
                          = Returned(TRUE)

\* a placeholder was created for a slot for which the same two names are
\* listed for both roles, one of them booked and the other one not
C19_Witness ==
    /\ calls.op = "slot" /\ calls.inserts # <<>>
    /\ FullyStaffed(calls.day, calls.slot)
    /\ NamesOf(Entry(calls.day, calls.slot).exp1) = NamesOf(Entry(calls.day, calls.slot).exp2)
    /\ Cardinality({name \in NamesOf(Entry(calls.day, calls.slot).exp1) :
                       ~Booked(name, calls.day, calls.slot)}) = 1
    /\ Cardinality(NamesOf(Entry(calls.day, calls.slot).exp1)) = 2

\* the calendar with the status of every event set to status
WithStatus(cal, status) == {[e EXCEPT !.status = status] : e \in cal}

\* an event of any status with the room in its summary and without the marker
\* overlaps slot i of day d
RoomEventOver(cal, d, i) ==
    \E e \in cal :
        /\ InLower(lokaal_fa1, e.summary)
        /\ ~InLower(free4booking, e.summary)
        /\ Intersects(e, SlotOf(d, i).start_time, SlotOf(d, i).end_time)

\* C20: for every slot the room check gives the same result whatever the
\* status of the events is, and no insert call is issued for a slot that an
\* event with the room in its summary and without the marker overlaps, be the
\* event cancelled or not.
C20_RoomCheckIgnoresStatus ==
    /\ \A d \in Horizon, i \in Slots :
          /\ RoomCheck(WithStatus(calendar, "cancelled"), d, i) = RoomCheck(calendar, d, i)
          /\ RoomCheck(WithStatus(calendar, "confirmed"), d, i) = RoomCheck(calendar, d, i)
    /\ (calls.op = "slot" /\ RoomEventOver(calendar, calls.day, calls.slot)) =>
          calls.inserts = <<>>

\* a slot that the staff could cover was evaluated and no insert call was
\* issued: the only room event over the slot is a cancelled one
C20_Witness ==
    /\ calls.op = "slot" /\ ~calls.list_failed
    /\ calls.inserts = <<>>
    /\ RoomEventOver(calendar, calls.day, calls.slot)
    /\ ~RoomEventOver({e \in calendar : e.status # "cancelled"}, calls.day, calls.slot)
    /\ StaffCheck(calendar, calls.day, calls.slot, WORK_SCHEDULE, TRUE) = Returned(TRUE)

====
